---- MODULE Spec2Model ----
(***************************************************************************)
(* Extraction -> Fusion -> Validation pipeline of OfferttoolRMB.           *)
(*                                                                         *)
(* Four layers are modelled:                                               *)
(*   * the validation service (app/services/validation_service.py) as pure *)
(*     operators over a data_json dict, and the endpoint that applies it   *)
(*     to the active snapshot (api/v1/validation.py);                      *)
(*   * the fusion engine (app/services/data_merging_service.py) as pure    *)
(*     operators over JSON-shaped values, computed the way the Python code *)
(*     computes them, including the in-place effects a call has on the     *)
(*     objects it shares with its caller;                                  *)
(*   * the extraction service (app/services/extraction_service.py) with    *)
(*     the row limits of the spreadsheet parser and the failures of the    *)
(*     parsers, as pure operators over a description of the file;          *)
(*   * the extraction entry points (api/v1/files.py, api/v1/extraction.py, *)
(*     tasks/extraction_tasks.py, api/v1/projects.py) as processes over a  *)
(*     database of Project / ProjectFile / ProjectData rows.               *)
(*                                                                         *)
(* JSON encoding used throughout:                                          *)
(*   dict            function with a set of strings as DOMAIN; a key that  *)
(*                   is absent from the dict is absent from the DOMAIN     *)
(*   nullable scalar <<>> for None, <<v>> for the value v                  *)
(*   str             sequence of one-character strings ("" is <<>>)        *)
(*   float           integer number of thousandths (20.3 is 20300)         *)
(*   list            sequence                                              *)
(*   id              string                                                *)
(*   quelle          [isList, entries]: a single provenance dict has       *)
(*                   isList = FALSE and one entry; an entry is the id of   *)
(*                   the source file (datei_id)                            *)
(***************************************************************************)
EXTENDS Integers, Sequences, FiniteSets, TLC

None == <<>>

Some(v) == <<v>>

Has(d, k) == k \in DOMAIN d

Put(d, k, v) == [x \in (DOMAIN d) \cup {k} |-> IF x = k THEN v ELSE d[x]]

Abs(x) == IF x < 0 THEN -x ELSE x

(***************************************************************************)
(* str.lower() on the alphabet the model's names are written in.           *)
(***************************************************************************)
LowerChar(c) ==
  CASE c = "B" -> "b"
    [] c = "L" -> "l"
    [] OTHER -> c

Lower(s) == [i \in 1..Len(s) |-> LowerChar(s[i])]

(***************************************************************************)
(* difflib.SequenceMatcher(None, a, b): number of matched characters, as   *)
(* get_matching_blocks computes it: the longest matching block (earliest   *)
(* in a, then earliest in b, among the longest), then recursively the      *)
(* pieces to its left and to its right.  Indices are 1-based, ranges       *)
(* inclusive.  No junk: isjunk is None and autojunk needs 200 characters.  *)
(***************************************************************************)
RECURSIVE RunLength(_, _, _, _, _, _)
RunLength(a, b, i, j, ahi, bhi) ==
  IF i > ahi \/ j > bhi THEN 0
  ELSE IF a[i] # b[j] THEN 0
  ELSE 1 + RunLength(a, b, i + 1, j + 1, ahi, bhi)

RECURSIVE MatchingChars(_, _, _, _, _, _)
MatchingChars(a, b, alo, ahi, blo, bhi) ==
  LET Starts == (alo..ahi) \X (blo..bhi)
      len == [x \in Starts |-> RunLength(a, b, x[1], x[2], ahi, bhi)]
  IN IF \A x \in Starts : len[x] = 0 THEN 0
     ELSE LET best == CHOOSE x \in Starts : \A y \in Starts :
                        \/ len[x] > len[y]
                        \/ /\ len[x] = len[y]
                           /\ \/ x[1] < y[1]
                              \/ x[1] = y[1] /\ x[2] <= y[2]
          IN len[best]
             + MatchingChars(a, b, alo, best[1] - 1, blo, best[2] - 1)
             + MatchingChars(a, b, best[1] + len[best], ahi, best[2] + len[best], bhi)

(* SequenceMatcher.ratio() > tenths/10; ratio() is 1.0 for two empty strings *)
RatioAbove(a, b, tenths) ==
  LET total == Len(a) + Len(b)
  IN IF total = 0 THEN 10 > tenths
     ELSE 2 * MatchingChars(a, b, 1, Len(a), 1, Len(b)) * 10 > tenths * total

RaumSimilarityTenths == 8

AnlageSimilarityTenths == 8

GeraetSimilarityTenths == 7

TerminSimilarityTenths == 9

KonfliktToleranz == 10

(***************************************************************************)
(* dict.get(key, "").lower(): raises AttributeError when the key is        *)
(* present with the value None.                                            *)
(***************************************************************************)
LowerRaises(e, k) == Has(e, k) /\ e[k] = None

LowerOf(e, k) == IF Has(e, k) THEN Lower(e[k][1]) ELSE <<>>

(* dict.get(key): None when the key is absent *)
Get(e, k) == IF Has(e, k) THEN e[k] ELSE None

(* truth value of a nullable str / of a nullable id *)
TruthyStr(v) == v # None /\ v[1] # <<>>

TruthyId(v) == v # None /\ v[1] # ""

NoMatch == [raised |-> FALSE, idx |-> 0]

Raised == [raised |-> TRUE, idx |-> 0]

Found(i) == [raised |-> FALSE, idx |-> i]

RECURSIVE ScanRaum(_, _, _)
ScanRaum(raum, existing_raeume, idx) ==
  IF idx > Len(existing_raeume) THEN NoMatch
  ELSE LET existing == existing_raeume[idx]
           raum_name == LowerOf(raum, "name")
           raum_nummer == LowerOf(raum, "nummer")
       IN IF existing.id = raum.id THEN Found(idx)
          ELSE IF TruthyId(Get(raum, "ifc_guid"))
                  /\ Get(existing, "ifc_guid") = Get(raum, "ifc_guid") THEN Found(idx)
          ELSE IF LowerRaises(existing, "name") \/ LowerRaises(existing, "nummer") THEN Raised
          ELSE LET existing_name == LowerOf(existing, "name")
                   existing_nummer == LowerOf(existing, "nummer")
               IN IF raum_name # <<>> /\ existing_name # <<>> /\ raum_name = existing_name
                    THEN Found(idx)
                  ELSE IF raum_nummer # <<>> /\ existing_nummer # <<>>
                          /\ raum_nummer = existing_nummer THEN Found(idx)
                  ELSE IF raum_name # <<>> /\ existing_name # <<>>
                          /\ RatioAbove(raum_name, existing_name, RaumSimilarityTenths)
                    THEN Found(idx)
                  ELSE ScanRaum(raum, existing_raeume, idx + 1)

_find_duplicate_raum(raum, existing_raeume) ==
  IF LowerRaises(raum, "name") \/ LowerRaises(raum, "nummer") THEN Raised
  ELSE ScanRaum(raum, existing_raeume, 1)

RECURSIVE ScanAnlage(_, _, _)
ScanAnlage(anlage, existing_anlagen, idx) ==
  IF idx > Len(existing_anlagen) THEN NoMatch
  ELSE LET existing == existing_anlagen[idx]
           anlage_name == LowerOf(anlage, "name")
       IN IF existing.id = anlage.id THEN Found(idx)
          ELSE IF TruthyId(Get(anlage, "ifc_guid"))
                  /\ Get(existing, "ifc_guid") = Get(anlage, "ifc_guid") THEN Found(idx)
          ELSE IF TruthyId(Get(anlage, "system_id"))
                  /\ Get(existing, "system_id") = Get(anlage, "system_id") THEN Found(idx)
          ELSE IF LowerRaises(existing, "name") THEN Raised
          ELSE LET existing_name == LowerOf(existing, "name")
               IN IF anlage_name # <<>> /\ existing_name # <<>>
                     /\ RatioAbove(anlage_name, existing_name, AnlageSimilarityTenths)
                    THEN Found(idx)
                  ELSE ScanAnlage(anlage, existing_anlagen, idx + 1)

_find_duplicate_anlage(anlage, existing_anlagen) ==
  IF LowerRaises(anlage, "name") THEN Raised
  ELSE ScanAnlage(anlage, existing_anlagen, 1)

RECURSIVE ScanGeraet(_, _, _)
ScanGeraet(geraet, existing_geraete, idx) ==
  IF idx > Len(existing_geraete) THEN NoMatch
  ELSE LET existing == existing_geraete[idx]
           geraet_name == LowerOf(geraet, "name")
       IN IF existing.id = geraet.id THEN Found(idx)
          ELSE IF TruthyId(Get(geraet, "ifc_guid"))
                  /\ Get(existing, "ifc_guid") = Get(geraet, "ifc_guid") THEN Found(idx)
          ELSE IF \/ LowerRaises(existing, "name")
                  \/ LowerRaises(existing, "typ")
                  \/ LowerRaises(geraet, "typ") THEN Raised
          ELSE LET existing_name == LowerOf(existing, "name")
                   existing_typ == LowerOf(existing, "typ")
                   geraet_typ == LowerOf(geraet, "typ")
               IN IF geraet_name # <<>> /\ existing_name # <<>> /\ geraet_name = existing_name
                    THEN Found(idx)
                  ELSE IF geraet_typ # <<>> /\ existing_typ # <<>> /\ geraet_typ = existing_typ
                          /\ RatioAbove(geraet_name, existing_name, GeraetSimilarityTenths)
                    THEN Found(idx)
                  ELSE ScanGeraet(geraet, existing_geraete, idx + 1)

_find_duplicate_geraet(geraet, existing_geraete) ==
  IF LowerRaises(geraet, "name") THEN Raised
  ELSE ScanGeraet(geraet, existing_geraete, 1)

RECURSIVE ScanTermin(_, _, _)
ScanTermin(termin, existing_termine, idx) ==
  IF idx > Len(existing_termine) THEN NoMatch
  ELSE LET existing == existing_termine[idx]
           termin_beschreibung == LowerOf(termin, "beschreibung")
       IN IF LowerRaises(existing, "beschreibung") THEN Raised
          ELSE LET existing_beschreibung == LowerOf(existing, "beschreibung")
               IN IF termin_beschreibung # <<>> /\ existing_beschreibung # <<>>
                     /\ RatioAbove(termin_beschreibung, existing_beschreibung,
                                   TerminSimilarityTenths)
                     /\ Get(termin, "termin_datum") = Get(existing, "termin_datum")
                    THEN Found(idx)
                  ELSE ScanTermin(termin, existing_termine, idx + 1)

_find_duplicate_termin(termin, existing_termine) ==
  IF LowerRaises(termin, "beschreibung") THEN Raised
  ELSE ScanTermin(termin, existing_termine, 1)

(***************************************************************************)
(* Merging two entities.  merged = existing.copy() is a shallow copy: the  *)
(* scalar fields are copied, the quelle list (when it already is a list)   *)
(* and the konflikte dict stay shared with existing.                       *)
(***************************************************************************)
QuelleEntries(q) == q.entries

(* variant: the incoming provenance replaces the existing one *)
MergedQuelle_replacing(existing, new) ==
  [isList |-> TRUE,
   entries |-> IF Has(new, "quelle") THEN QuelleEntries(new.quelle) ELSE <<>>]

(* "Quellenverweise zusammenfuehren": quelle becomes a list, new's entries are appended *)
MergedQuelle(existing, new) ==
  LET base == IF Has(existing, "quelle") THEN QuelleEntries(existing.quelle) ELSE <<>>
      more == IF Has(new, "quelle") THEN QuelleEntries(new.quelle) ELSE <<>>
  IN [isList |-> TRUE, entries |-> base \o more]

(* keys whose values are int/float in the parsers' output *)
NumericKeys == {"flaeche_m2", "hoehe_m", "leistung_kw", "leistung_m3_h"}

AnlageListKeys == {"zugehoerige_raeume", "zugehoerige_geraete"}

(* existing.get("quelle", {}) as stored in a conflict: a provenance dict is    *)
(* stored as it is; a provenance list is stored by reference, so it shows the  *)
(* list as extended by this and by later merges until the snapshot is written. *)
SharedQuelle == [ref |-> "quelle"]

QuelleAlt(existing) ==
  IF Has(existing, "quelle") /\ existing.quelle.isList THEN SharedQuelle
  ELSE IF Has(existing, "quelle") THEN existing.quelle
  ELSE [isList |-> FALSE, entries |-> <<>>]

FieldKeys(new) == (DOMAIN new) \ {"quelle", "id"}

(* variant: the latest non-null value wins *)
TakesNew_latest(merged, new, key) == new[key] # None

(* "if key not in merged or merged[key] is None: merged[key] = value" *)
TakesNew(merged, new, key) ==
  new[key] # None /\ (~Has(merged, key) \/ merged[key] = None)

(* variant: the difference is taken without abs() *)
IsKonflikt_signed(merged, new, key) ==
  /\ new[key] # None
  /\ Has(merged, key) /\ merged[key] # None
  /\ key \in NumericKeys
  /\ new[key][1] - merged[key][1] > KonfliktToleranz

(* "abs(value - merged[key]) > 0.01" on two numbers *)
IsKonflikt(merged, new, key) ==
  /\ new[key] # None
  /\ Has(merged, key) /\ merged[key] # None
  /\ key \in NumericKeys
  /\ Abs(new[key][1] - merged[key][1]) > KonfliktToleranz

_merge_raum_entities(existing, new) ==
  LET merged == Put(existing, "quelle", MergedQuelle(existing, new))
      taken == {k \in FieldKeys(new) : TakesNew(merged, new, k)}
      konf == {k \in FieldKeys(new) : IsKonflikt(merged, new, k)}
      old_konflikte == IF Has(merged, "konflikte") THEN merged.konflikte ELSE << >>
      konflikte ==
        [k \in (DOMAIN old_konflikte) \cup konf |->
           IF k \in konf
             THEN [alt |-> merged[k][1], neu |-> new[k][1],
                   quelle_alt |-> QuelleAlt(existing),
                   quelle_neu |-> IF Has(new, "quelle") THEN new.quelle
                                  ELSE [isList |-> FALSE, entries |-> <<>>]]
             ELSE old_konflikte[k]]
      keys == (DOMAIN merged) \cup taken \cup (IF konf = {} THEN {} ELSE {"konflikte"})
  IN [k \in keys |->
        IF k = "konflikte" /\ konf # {} THEN konflikte
        ELSE IF k \in taken THEN new[k]
        ELSE merged[k]]

_merge_anlage_entities(existing, new) ==
  LET merged == Put(existing, "quelle", MergedQuelle(existing, new))
      taken == {k \in FieldKeys(new) : TakesNew(merged, new, k)}
      unioned == {k \in FieldKeys(new) \cap AnlageListKeys :
                    new[k] # None /\ ~TakesNew(merged, new, k)}
  IN [k \in (DOMAIN merged) \cup taken |->
        IF k \in taken THEN new[k]
        ELSE IF k \in unioned THEN Some(merged[k][1] \cup new[k][1])
        ELSE merged[k]]

_merge_geraet_entities(existing, new) ==
  LET merged == Put(existing, "quelle", MergedQuelle(existing, new))
      taken == {k \in FieldKeys(new) : TakesNew(merged, new, k)}
  IN [k \in (DOMAIN merged) \cup taken |-> IF k \in taken THEN new[k] ELSE merged[k]]

_merge_termin_entities(existing, new) ==
  Put(existing, "quelle", MergedQuelle(existing, new))

(***************************************************************************)
(* Merging a list of extracted entities into a collection.                 *)
(***************************************************************************)
(* new["quelle"] = {**source_info, **new.get("quelle", {})}: one provenance *)
(* dict naming the source file                                              *)
WithSource(e, source_info) ==
  Put(e, "quelle", [isList |-> FALSE, entries |-> <<source_info>>])

Deduplicated == {"raeume", "anlagen", "geraete", "termine"}

FindDuplicate(entity_type, e, existing) ==
  CASE entity_type = "raeume" -> _find_duplicate_raum(e, existing)
    [] entity_type = "anlagen" -> _find_duplicate_anlage(e, existing)
    [] entity_type = "geraete" -> _find_duplicate_geraet(e, existing)
    [] entity_type = "termine" -> _find_duplicate_termin(e, existing)
    [] OTHER -> NoMatch

MergeEntities(entity_type, existing, new) ==
  CASE entity_type = "raeume" -> _merge_raum_entities(existing, new)
    [] entity_type = "anlagen" -> _merge_anlage_entities(existing, new)
    [] entity_type = "geraete" -> _merge_geraet_entities(existing, new)
    [] OTHER -> _merge_termin_entities(existing, new)

(* The entity object that was in the collection before the call, after a     *)
(* merge into a shallow copy of it produced m: its quelle list (if it was a  *)
(* list) and its konflikte dict (if it had one) are the objects m mutated.   *)
InPlace(before, m) ==
  LET q == IF Has(before, "quelle") /\ before.quelle.isList
             THEN Put(before, "quelle", m.quelle) ELSE before
  IN IF Has(before, "konflikte") THEN Put(q, "konflikte", m.konflikte) ELSE q

(* _merge_raeume, _merge_anlagen, _merge_geraete, _merge_anforderungen,     *)
(* _merge_termine, _merge_leistungen.  merged is the function's local list, *)
(* leaked is the list object that was passed in (same entity objects).      *)
RECURSIVE MergeList(_, _, _, _, _, _)
MergeList(entity_type, merged, leaked, new_list, i, source_info) ==
  IF i > Len(new_list) THEN [raised |-> FALSE, merged |-> merged, leaked |-> leaked]
  ELSE LET new_e == WithSource(new_list[i], source_info)
           Replace(idx, m) ==
             MergeList(entity_type,
                       [merged EXCEPT ![idx] = m],
                       IF idx <= Len(leaked)
                         THEN [leaked EXCEPT ![idx] = InPlace(@, m)]
                         ELSE leaked,
                       new_list, i + 1, source_info)
           Place(fd) ==
             IF fd.raised THEN [raised |-> TRUE, merged |-> merged, leaked |-> leaked]
             ELSE IF fd.idx > 0
               THEN Replace(fd.idx, MergeEntities(entity_type, merged[fd.idx], new_e))
             ELSE MergeList(entity_type, Append(merged, new_e), leaked,
                            new_list, i + 1, source_info)
       IN Place(IF entity_type \in Deduplicated
                  THEN FindDuplicate(entity_type, new_e, merged) ELSE NoMatch)

(***************************************************************************)
(* merge_extracted_data(current_data, extracted_data, source_file).        *)
(* The function works in place on the dict it is given.  The result is     *)
(*   raised  whether the call raised,                                      *)
(*   d       the dict that was passed in, as the call left it (complete,   *)
(*           or partly filled when the call raised),                       *)
(*   o       the caller's own dict when the dict passed in was made by     *)
(*           current_data.data_json.copy(): a shallow copy, so assignments *)
(*           to top-level keys do not reach it, while appends to the       *)
(*           nested lists and dicts it shares with the copy do.            *)
(***************************************************************************)
ShareIf(o, k, v) == IF Has(o, k) THEN Put(o, k, v) ELSE o

EntityStage(st, entity_type, extracted_data, source_file) ==
  LET d0 == IF Has(st.d, entity_type) THEN st.d ELSE Put(st.d, entity_type, <<>>)
  IN IF ~Has(extracted_data, entity_type) THEN [st EXCEPT !.d = d0]
     ELSE LET Assigned(r) ==
                [raised |-> r.raised,
                 d |-> Put(d0, entity_type, IF r.raised THEN r.leaked ELSE r.merged),
                 o |-> ShareIf(st.o, entity_type, r.leaked)]
          IN Assigned(MergeList(entity_type, d0[entity_type], d0[entity_type],
                                extracted_data[entity_type], 1, source_file.id))

(* images, raw_tables and full_text entries are appended to the list in place *)
AppendStage(st, key, entries) ==
  LET d0 == IF Has(st.d, key) THEN st.d ELSE Put(st.d, key, <<>>)
      list == d0[key] \o entries
  IN [st EXCEPT !.d = Put(d0, key, list), !.o = ShareIf(st.o, key, list)]

ImagesStage(st, extracted_data, source_file) ==
  AppendStage(st, "images",
    IF Has(extracted_data, "images")
      THEN [i \in 1..Len(extracted_data.images) |->
              WithSource(extracted_data.images[i], source_file.id)]
      ELSE <<>>)

_merge_raw_tables(st, extracted_data, source_file) ==
  AppendStage(st, "raw_tables",
    IF Has(extracted_data, "raw_tables")
      THEN [i \in 1..Len(extracted_data.raw_tables) |->
              WithSource(extracted_data.raw_tables[i], source_file.id)]
      ELSE <<>>)

(* metadata[str(file_id)] = file_metadata, replacing an earlier entry of the file *)
_merge_metadata(st, extracted_data, source_file) ==
  LET d0 == IF Has(st.d, "metadata") THEN st.d ELSE Put(st.d, "metadata", << >>)
  IN IF ~Has(extracted_data, "metadata") THEN [st EXCEPT !.d = d0]
     ELSE LET md == Put(d0.metadata, ToString(source_file.id),
                        WithSource(extracted_data.metadata, source_file.id))
          IN [st EXCEPT !.d = Put(d0, "metadata", md),
                        !.o = ShareIf(st.o, "metadata", md)]

(* a str entry is kept when it is not blank and wrapped into a dict; a dict *)
(* entry is kept as it is; both get the source                              *)
RECURSIVE FullTextEntries(_, _, _)
FullTextEntries(new_full_text, i, source_file) ==
  IF i > Len(new_full_text) THEN <<>>
  ELSE LET text_entry == new_full_text[i]
           rest == FullTextEntries(new_full_text, i + 1, source_file)
       IN IF text_entry.isStr /\ text_entry.content = "" THEN rest
          ELSE <<WithSource([content |-> text_entry.content], source_file.id)>> \o rest

_merge_full_text(st, extracted_data, source_file) ==
  AppendStage(st, "full_text",
    IF Has(extracted_data, "full_text")
      THEN FullTextEntries(extracted_data.full_text, 1, source_file)
      ELSE <<>>)

(* "Projekt-Metadaten aktualisieren": the file registry, one entry per file name *)
ProjektStage(st, source_file) ==
  IF ~Has(st.d, "projekt") THEN st
  ELSE LET dateien == st.d.projekt.dateien
           file_entry == [name |-> source_file.original_filename]
           projekt == IF \E i \in 1..Len(dateien) : dateien[i].name = file_entry.name
                        THEN st.d.projekt
                        ELSE [st.d.projekt EXCEPT !.dateien = Append(dateien, file_entry)]
       IN [st EXCEPT !.d = Put(st.d, "projekt", projekt),
                     !.o = ShareIf(st.o, "projekt", projekt)]

entity_types == <<"raeume", "anlagen", "geraete", "anforderungen", "termine", "leistungen">>

RECURSIVE EntityStages(_, _, _, _)
EntityStages(st, i, extracted_data, source_file) ==
  IF i > Len(entity_types) \/ st.raised THEN st
  ELSE EntityStages(EntityStage(st, entity_types[i], extracted_data, source_file),
                    i + 1, extracted_data, source_file)

merge_extracted_data(current_data, extracted_data, source_file) ==
  LET s0 == [raised |-> FALSE, d |-> current_data, o |-> current_data]
      Rest(s1) ==
        IF s1.raised THEN s1
        ELSE ProjektStage(
               _merge_full_text(
                 _merge_metadata(
                   _merge_raw_tables(
                     ImagesStage(s1, extracted_data, source_file),
                     extracted_data, source_file),
                   extracted_data, source_file),
                 extracted_data, source_file),
               source_file)
  IN Rest(EntityStages(s0, 1, extracted_data, source_file))

(***************************************************************************)
(* Writing a dict into the JSON column (json.dumps at flush) and           *)
(* copy.deepcopy: references to a shared provenance list become the list.  *)
(***************************************************************************)
ResolveEntity(e) ==
  IF ~Has(e, "konflikte") THEN e
  ELSE Put(e, "konflikte",
           [k \in DOMAIN e.konflikte |->
              IF e.konflikte[k].quelle_alt = SharedQuelle
                THEN [e.konflikte[k] EXCEPT !.quelle_alt = e.quelle]
                ELSE e.konflikte[k]])

Serialized(data_json) ==
  [k \in DOMAIN data_json |->
     IF k = "raeume"
       THEN [i \in 1..Len(data_json[k]) |-> ResolveEntity(data_json[k][i])]
       ELSE data_json[k]]

(* create_empty_project_data: no raw_tables, images, metadata or full_text key *)
create_empty_project_data ==
  [projekt |-> [dateien |-> <<>>],
   raeume |-> <<>>, anlagen |-> <<>>, geraete |-> <<>>,
   anforderungen |-> <<>>, termine |-> <<>>, leistungen |-> <<>>,
   risiken |-> <<>>,
   pruefungs_ergebnisse |-> [konsistenz_ok |-> None]]

(***************************************************************************)
(* The validation service (app/services/validation_service.py) as pure     *)
(* operators over a data_json dict as it is read from the JSON column.     *)
(* An issue keeps kategorie, schweregrad and betroffene_entitaet; its      *)
(* beschreibung is the message template and the identifier the message     *)
(* names. fundstellen and empfehlung are texts derived from the same       *)
(* entity and are left out.                                                *)
(***************************************************************************)
ValidationIssue(kategorie, text, ref, schweregrad, betroffene_entitaet) ==
  [kategorie |-> kategorie,
   beschreibung |-> [text |-> text, ref |-> ref],
   schweregrad |-> schweregrad,
   betroffene_entitaet |-> betroffene_entitaet]

(* tolerances and bands of the checks, in thousandths *)
FlaecheToleranz == 100

VolumenToleranz == 500

MaxFlaeche == 10000000

MaxHoehe == 10000

MaxLeistung == 10000000

(* truth value of a nullable number *)
TruthyNum(v) == v # None /\ v[1] # 0

(* data.get(key, []) *)
ListOf(data, k) == IF Has(data, k) THEN data[k] ELSE <<>>

(* the entity that raum_dict / anlage_dict holds for the id of es[j] when *)
(* es[j] is reached: the first entity of the list with that id            *)
FirstWithId(es, j) ==
  CHOOSE i \in 1..j : es[i].id = es[j].id /\ \A k \in 1..(i - 1) : es[k].id # es[j].id

(* the entity that raum_by_nummer holds for the number of raeume[j] *)
FirstWithNummer(raeume, j) ==
  CHOOSE i \in 1..j :
    /\ LowerOf(raeume[i], "nummer") = LowerOf(raeume[j], "nummer")
    /\ \A k \in 1..(i - 1) : LowerOf(raeume[k], "nummer") # LowerOf(raeume[j], "nummer")

(* "existing_flaeche and flaeche and abs(existing_flaeche - flaeche) > 0.1" *)
Widerspruch(existing, entity, key) ==
  /\ TruthyNum(Get(existing, key)) /\ TruthyNum(Get(entity, key))
  /\ Abs(existing[key][1] - entity[key][1]) > FlaecheToleranz

(* the issues the room loop of _check_data_consistency appends for raeume[j] *)
RaumConsistency(raeume, j) ==
  LET raum == raeume[j]
      flaeche == Get(raum, "flaeche_m2")
      volumen == Get(raum, "volumen_m3")
      hoehe == Get(raum, "hoehe_m")
  IN (IF FirstWithId(raeume, j) < j
         /\ Widerspruch(raeume[FirstWithId(raeume, j)], raum, "flaeche_m2")
        THEN <<ValidationIssue("Widerspruch", "Raum hat unterschiedliche Flaechenangaben",
                               raum.id, "kritisch", raum.id)>>
        ELSE <<>>)
     \o
     (IF LowerOf(raum, "nummer") # <<>> /\ FirstWithNummer(raeume, j) < j
         /\ Widerspruch(raeume[FirstWithNummer(raeume, j)], raum, "flaeche_m2")
        THEN <<ValidationIssue("Widerspruch",
                               "Raum mit Nummer hat unterschiedliche Flaechenangaben",
                               raum.id, "kritisch", raum.id)>>
        ELSE <<>>)
     \o
     (IF TruthyNum(flaeche) /\ TruthyNum(hoehe) /\ TruthyNum(volumen)
         /\ Abs(1000 * volumen[1] - flaeche[1] * hoehe[1]) > 1000 * VolumenToleranz
        THEN <<ValidationIssue("Plausibilitaetsfehler",
                               "Volumen stimmt nicht mit Flaeche x Hoehe ueberein",
                               raum.id, "warnung", raum.id)>>
        ELSE <<>>)

(* the issue the system loop of _check_data_consistency appends for anlagen[j] *)
AnlageConsistency(anlagen, j) ==
  IF FirstWithId(anlagen, j) < j
     /\ Widerspruch(anlagen[FirstWithId(anlagen, j)], anlagen[j], "leistung_kw")
    THEN <<ValidationIssue("Widerspruch", "Anlage hat unterschiedliche Leistungsangaben",
                           anlagen[j].id, "kritisch", anlagen[j].id)>>
    ELSE <<>>

(* the issues of a loop: those appended for each entity, in list order *)
RECURSIVE Appended(_)
Appended(per_entity) ==
  IF per_entity = <<>> THEN <<>> ELSE Head(per_entity) \o Appended(Tail(per_entity))

(* raum.get("nummer", "").lower() raises when the key holds null *)
ConsistencyRaises(data) ==
  \E j \in 1..Len(ListOf(data, "raeume")) : LowerRaises(data.raeume[j], "nummer")

_check_data_consistency(data) ==
  Appended([j \in 1..Len(ListOf(data, "raeume")) |-> RaumConsistency(data.raeume, j)])
  \o Appended([j \in 1..Len(ListOf(data, "anlagen")) |-> AnlageConsistency(data.anlagen, j)])

(* {e.get("id") for e in data.get(key, [])} *)
IdsOf(data, k) == {ListOf(data, k)[i].id : i \in 1..Len(ListOf(data, k))}

(* entity.get(key, []) of a relationship list; the list is kept as the set *)
(* of its members                                                          *)
RefsOf(entity, k) == IF Has(entity, k) /\ entity[k] # None THEN entity[k][1] ELSE {}

(* for ref in refs: one issue per member that is not in ids; the members *)
(* are taken in a fixed order                                             *)
RECURSIVE Dangling(_, _, _, _)
Dangling(refs, ids, text, entity_id) ==
  IF refs = {} THEN <<>>
  ELSE LET ref == CHOOSE x \in refs : TRUE
       IN (IF ref \notin ids
             THEN <<ValidationIssue("Referenzfehler", text, ref, "kritisch", entity_id)>>
             ELSE <<>>)
          \o Dangling(refs \ {ref}, ids, text, entity_id)

(* variant: the three device checks are independent ifs *)
GeraetReferences_unchained(data, geraet) ==
  LET zugehoerige_anlage == Get(geraet, "zugehoerige_anlage")
      zugehoeriger_raum == Get(geraet, "zugehoeriger_raum")
  IN (IF ~TruthyId(zugehoerige_anlage) /\ ~TruthyId(zugehoeriger_raum)
        THEN <<ValidationIssue("Fehlende Angabe",
                               "Geraet ist keinem Raum oder keiner Anlage zugeordnet",
                               "", "warnung", geraet.id)>>
        ELSE <<>>)
     \o (IF TruthyId(zugehoerige_anlage) /\ zugehoerige_anlage[1] \notin IdsOf(data, "anlagen")
           THEN <<ValidationIssue("Referenzfehler",
                                  "Geraet referenziert nicht existierende Anlage",
                                  zugehoerige_anlage[1], "kritisch", geraet.id)>>
           ELSE <<>>)
     \o (IF TruthyId(zugehoeriger_raum) /\ zugehoeriger_raum[1] \notin IdsOf(data, "raeume")
           THEN <<ValidationIssue("Referenzfehler",
                                  "Geraet referenziert nicht existierenden Raum",
                                  zugehoeriger_raum[1], "kritisch", geraet.id)>>
           ELSE <<>>)

(* the device loop of _check_reference_integrity: one if / elif chain *)
GeraetReferences(data, geraet) ==
  LET zugehoerige_anlage == Get(geraet, "zugehoerige_anlage")
      zugehoeriger_raum == Get(geraet, "zugehoeriger_raum")
  IN IF ~TruthyId(zugehoerige_anlage) /\ ~TruthyId(zugehoeriger_raum)
       THEN <<ValidationIssue("Fehlende Angabe",
                              "Geraet ist keinem Raum oder keiner Anlage zugeordnet",
                              "", "warnung", geraet.id)>>
     ELSE IF TruthyId(zugehoerige_anlage) /\ zugehoerige_anlage[1] \notin IdsOf(data, "anlagen")
       THEN <<ValidationIssue("Referenzfehler", "Geraet referenziert nicht existierende Anlage",
                              zugehoerige_anlage[1], "kritisch", geraet.id)>>
     ELSE IF TruthyId(zugehoeriger_raum) /\ zugehoeriger_raum[1] \notin IdsOf(data, "raeume")
       THEN <<ValidationIssue("Referenzfehler", "Geraet referenziert nicht existierenden Raum",
                              zugehoeriger_raum[1], "kritisch", geraet.id)>>
     ELSE <<>>

AnlageReferences(data, anlage) ==
  Dangling(RefsOf(anlage, "zugehoerige_raeume"), IdsOf(data, "raeume"),
           "Anlage referenziert nicht existierenden Raum", anlage.id)
  \o Dangling(RefsOf(anlage, "zugehoerige_geraete"), IdsOf(data, "geraete"),
              "Anlage referenziert nicht existierendes Geraet", anlage.id)

RaumReferences(data, raum) ==
  Dangling(RefsOf(raum, "zugehoerige_anlagen"), IdsOf(data, "anlagen"),
           "Raum referenziert nicht existierende Anlage", raum.id)
  \o Dangling(RefsOf(raum, "zugehoerige_geraete"), IdsOf(data, "geraete"),
              "Raum referenziert nicht existierendes Geraet", raum.id)

TerminReferences(data, termin) ==
  LET zugehoerige_leistung == Get(termin, "zugehoerige_leistung")
  IN IF TruthyId(zugehoerige_leistung)
        /\ zugehoerige_leistung[1] \notin IdsOf(data, "leistungen")
       THEN <<ValidationIssue("Referenzfehler",
                              "Termin referenziert nicht existierende Leistung",
                              zugehoerige_leistung[1], "warnung", termin.id)>>
       ELSE <<>>

_check_reference_integrity(data) ==
  Appended([j \in 1..Len(ListOf(data, "geraete")) |-> GeraetReferences(data, data.geraete[j])])
  \o Appended([j \in 1..Len(ListOf(data, "anlagen")) |-> AnlageReferences(data, data.anlagen[j])])
  \o Appended([j \in 1..Len(ListOf(data, "raeume")) |-> RaumReferences(data, data.raeume[j])])
  \o Appended([j \in 1..Len(ListOf(data, "termine")) |-> TerminReferences(data, data.termine[j])])

(* "if v is not None: if v <= 0: kritisch elif v > band: hinweis" *)
Positive(v, band, text, text_band, entity_id) ==
  IF v = None THEN <<>>
  ELSE IF v[1] <= 0
    THEN <<ValidationIssue("Plausibilitaetsfehler", text, "", "kritisch", entity_id)>>
  ELSE IF v[1] > band
    THEN <<ValidationIssue("Plausibilitaetsfehler", text_band, "", "hinweis", entity_id)>>
  ELSE <<>>

(* "if v is not None and v < 0: kritisch" *)
NotNegative(v, text, entity_id) ==
  IF v # None /\ v[1] < 0
    THEN <<ValidationIssue("Plausibilitaetsfehler", text, "", "kritisch", entity_id)>>
    ELSE <<>>

RaumPlausibility(data, raum) ==
  Positive(Get(raum, "flaeche_m2"), MaxFlaeche, "Raum hat ungueltige Flaeche",
           "Raum hat sehr grosse Flaeche", raum.id)
  \o (IF Get(raum, "volumen_m3") # None /\ raum.volumen_m3[1] <= 0
        THEN <<ValidationIssue("Plausibilitaetsfehler", "Raum hat ungueltiges Volumen",
                               "", "kritisch", raum.id)>>
        ELSE <<>>)
  \o Positive(Get(raum, "hoehe_m"), MaxHoehe, "Raum hat ungueltige Hoehe",
              "Raum hat sehr hohe Raumhoehe", raum.id)

AnlagePlausibility(data, anlage) ==
  LET leistung_kw == Get(anlage, "leistung_kw")
  IN (IF leistung_kw = None THEN <<>>
      ELSE IF leistung_kw[1] < 0
        THEN <<ValidationIssue("Plausibilitaetsfehler", "Anlage hat negative Leistung",
                               "", "kritisch", anlage.id)>>
      ELSE IF leistung_kw[1] > MaxLeistung
        THEN <<ValidationIssue("Plausibilitaetsfehler", "Anlage hat sehr grosse Leistung",
                               "", "hinweis", anlage.id)>>
      ELSE <<>>)
     \o NotNegative(Get(anlage, "leistung_m3_h"), "Anlage hat negativen Volumenstrom",
                    anlage.id)

GeraetPlausibility(data, geraet) ==
  NotNegative(Get(geraet, "leistung_kw"), "Geraet hat negative Leistung", geraet.id)

_check_numerical_plausibility(data) ==
  Appended([j \in 1..Len(ListOf(data, "raeume")) |-> RaumPlausibility(data, data.raeume[j])])
  \o Appended([j \in 1..Len(ListOf(data, "anlagen")) |-> AnlagePlausibility(data, data.anlagen[j])])
  \o Appended([j \in 1..Len(ListOf(data, "geraete")) |-> GeraetPlausibility(data, data.geraete[j])])

(* "[i for i in issues if i.schweregrad == ...]" *)
WithSchweregrad(issues, schweregrad) ==
  SelectSeq(issues, LAMBDA i : i.schweregrad = schweregrad)

(* validate_project_data of a service whose offerte_spec.yaml does not exist *)
(* (self.offerte_spec is None and step 4 is skipped); a raised exception is  *)
(* the result [raised |-> TRUE]                                              *)
validate_project_data(project_data) ==
  IF ConsistencyRaises(project_data) THEN [raised |-> TRUE]
  ELSE LET Result(fehler, warnungen, hinweise) ==
             [raised |-> FALSE, konsistenz_ok |-> Len(fehler) = 0,
              fehler |-> fehler, warnungen |-> warnungen, hinweise |-> hinweise]
       IN Result(WithSchweregrad(_check_data_consistency(project_data), "kritisch")
                 \o WithSchweregrad(_check_reference_integrity(project_data), "kritisch"),
                 WithSchweregrad(_check_data_consistency(project_data), "warnung")
                 \o WithSchweregrad(_check_reference_integrity(project_data), "warnung")
                 \o WithSchweregrad(_check_numerical_plausibility(project_data), "warnung"),
                 WithSchweregrad(_check_numerical_plausibility(project_data), "hinweis"))

(***************************************************************************)
(* State.                                                                  *)
(*   project    the Project row (one project is modelled)                  *)
(*   snapshots  the ProjectData rows of the project, in insertion order    *)
(*   files      the ProjectFile rows                                       *)
(*   runs       the extraction runs: position and session-local objects    *)
(*   fusion     a dict that merge_extracted_data is applied to file after  *)
(*              file, for the properties of the fusion engine on its own   *)
(***************************************************************************)
VARIABLES project, snapshots, files, runs, fusion, validation, extraction

vars == <<project, snapshots, files, runs, fusion, validation, extraction>>

pipeline_vars == <<project, snapshots, files, runs>>

MaxFiles == 3

MaxRuns == 2

MaxMerges == 3

FileIds == 1..MaxFiles

RunIds == 1..MaxRuns

(* the ProjectFile row as merge_extracted_data reads it *)
SourceFile(f) == [id |-> f, original_filename |-> ToString(f)]

(***************************************************************************)
(* Names and values the extracted entities are built from.                 *)
(***************************************************************************)
Buero1 == <<"b", "u", "e", "r", "o", "1">>

Buero1Upper == <<"B", "u", "e", "r", "o", "1">>

Buero2 == <<"b", "u", "e", "r", "o", "2">>

Lager == <<"L", "a", "g", "e", "r">>

(* rooms as the spreadsheet parser emits them: id, name, nummer, flaeche_m2 *)
(* (null when the cell is empty); as the BIM parser emits them: ifc_guid    *)
RaumInputs ==
  {[id |-> "R1", name |-> Some(Buero1), flaeche_m2 |-> Some(20000)],
   [id |-> "R1", name |-> Some(Lager), flaeche_m2 |-> Some(20300)],
   [id |-> "R1", name |-> Some(Buero1), flaeche_m2 |-> None],
   [id |-> "R2", name |-> Some(Buero2), flaeche_m2 |-> Some(20005)],
   [id |-> "R2", name |-> Some(Lager), flaeche_m2 |-> Some(20600)],
   [id |-> "R3", name |-> Some(Buero1Upper), nummer |-> Some(Buero1Upper),
    flaeche_m2 |-> Some(20600)],
   [id |-> "R4", name |-> Some(Lager), ifc_guid |-> Some("G1"), flaeche_m2 |-> None],
   [id |-> "R5", name |-> None, flaeche_m2 |-> Some(20000)]}

AnlageInputs ==
  {[id |-> "A1", name |-> Some(Lager), leistung_kw |-> Some(5000),
    zugehoerige_raeume |-> Some({"R1"})],
   [id |-> "A2", name |-> Some(Lager), leistung_kw |-> Some(7000),
    system_id |-> Some("S1"), zugehoerige_raeume |-> Some({"R2"})],
   [id |-> "A3", name |-> Some(Buero1), leistung_kw |-> None, system_id |-> Some("S1")]}

(* devices as the Word parser emits them: name is null when the table has a *)
(* type column and no name column                                           *)
GeraetInputs ==
  {[id |-> "GER_1_1", typ |-> Some(Lager), name |-> Some(Buero1), leistung_kw |-> Some(3000)],
   [id |-> "GER_1_2", typ |-> Some(Lager), name |-> Some(Buero2), leistung_kw |-> Some(4000)],
   [id |-> "GER_2_2", typ |-> Some(Lager), name |-> None, leistung_kw |-> Some(3000)]}

TerminInputs ==
  {[id |-> "TERM_0001", beschreibung |-> Some(Buero1Upper), termin_datum |-> Some("2025-01-01")],
   [id |-> "TERM_0002", beschreibung |-> Some(Buero1), termin_datum |-> Some("2025-02-02")]}

(* requirements as the PDF parser emits them: the id is the number of the *)
(* paragraph in its file                                                   *)
AnforderungInputs ==
  {[id |-> "ANF_0000", beschreibung |-> Some(Lager)]}

(* extraction results: one entity list of one or two entities, or a Word-like *)
(* file with a room table and a device table                                  *)
Extractions ==
  {[raeume |-> <<r>>] : r \in RaumInputs}
  \cup {[raeume |-> <<[id |-> "R1", name |-> Some(Buero1), flaeche_m2 |-> Some(20000)],
                     [id |-> "R2", name |-> Some(Buero2), flaeche_m2 |-> Some(20300)]>>,
         raw_tables |-> <<[t |-> 1]>>, metadata |-> [sheets |-> 1]]}
  \cup {[anlagen |-> <<a>>] : a \in AnlageInputs}
  \cup {[geraete |-> <<g>>] : g \in GeraetInputs}
  \cup {[raeume |-> <<[id |-> "R6", name |-> Some(Lager), flaeche_m2 |-> Some(20300)]>>,
         geraete |-> <<g>>, raw_tables |-> <<[t |-> 1]>>] :
          g \in {x \in GeraetInputs : x.id \in {"GER_1_1", "GER_2_2"}}}
  \cup {[termine |-> <<t>>] : t \in TerminInputs}
  \cup {[anforderungen |-> <<a>>] : a \in AnforderungInputs}

(***************************************************************************)
(* The fusion engine on its own: merge_extracted_data applied to one dict, *)
(* file after file; the k-th file merged has id k.                         *)
(*   data    the dict (in memory)                                          *)
(*   before  the dict before the last call                                 *)
(*   ext     the extraction result of the last call                        *)
(*   raised  whether the last call raised                                  *)
(*   count   the number of calls so far                                    *)
(***************************************************************************)
NoExtraction == [x \in {} |-> None]

FusionInit ==
  fusion = [data |-> create_empty_project_data, before |-> create_empty_project_data,
            ext |-> NoExtraction, raised |-> FALSE, count |-> 0]

(* a caller that passes the dict itself (extraction.py) or a shallow copy of it *)
(* (files.py, extraction_tasks.py); when the call raises, the caller keeps      *)
(* what the call left of its own dict                                           *)
MergeFile(ext) ==
  /\ fusion.count < MaxMerges
  /\ LET Returned(res) ==
           \E shallow \in (IF res.raised THEN BOOLEAN ELSE {FALSE}) :
             fusion' = [data |-> IF shallow THEN res.o ELSE res.d,
                        before |-> fusion.data,
                        ext |-> ext,
                        raised |-> res.raised,
                        count |-> fusion.count + 1]
     IN Returned(merge_extracted_data(fusion.data, ext, SourceFile(fusion.count + 1)))
  /\ UNCHANGED <<pipeline_vars, validation, extraction>>

(* the dict is written to the JSON column and read back *)
Reload ==
  /\ Serialized(fusion.data) # fusion.data
  /\ fusion' = [fusion EXCEPT !.data = Serialized(fusion.data),
                              !.before = Serialized(fusion.data),
                              !.ext = NoExtraction, !.raised = FALSE]
  /\ UNCHANGED <<pipeline_vars, validation, extraction>>

PipelineIdle ==
  /\ project = [exists |-> FALSE, status |-> "draft"]
  /\ snapshots = <<>>
  /\ files = [f \in FileIds |-> [uploaded |-> FALSE, processed |-> FALSE,
                                 processing_error |-> FALSE]]
  /\ runs = [r \in RunIds |-> [pc |-> "idle"]]

(* no validation has been requested *)
NotValidated == [done |-> FALSE, row |-> 0, data |-> NoExtraction, result |-> None]

(* no file has been handed to the extraction service on its own *)
NotExtracted == [done |-> FALSE, file |-> NoExtraction, outcome |-> None]

InitMerge == PipelineIdle /\ FusionInit /\ validation = NotValidated /\ extraction = NotExtracted

NextMerge ==
  \/ \E ext \in Extractions : MergeFile(ext)
  \/ Reload

SpecMerge == InitMerge /\ [][NextMerge]_vars

(***************************************************************************)
(* The validation service on its own: validate_project_data applied to a   *)
(* data_json dict built from the entities below.                           *)
(***************************************************************************)
MaxEntities == 2

One == <<"1">>

ValRaumInputs ==
  {[id |-> "R1", nummer |-> Some(One), flaeche_m2 |-> Some(20000), hoehe_m |-> Some(3000),
    volumen_m3 |-> Some(60000)],
   [id |-> "R1", flaeche_m2 |-> Some(20300), zugehoerige_geraete |-> Some({"G1"})],
   [id |-> "R2", nummer |-> Some(One), flaeche_m2 |-> Some(0), hoehe_m |-> Some(-1000),
    volumen_m3 |-> Some(0), zugehoerige_anlagen |-> Some({"A1"})]}

ValAnlageInputs ==
  {[id |-> "A1", leistung_kw |-> Some(5000), zugehoerige_raeume |-> Some({"R1"})],
   [id |-> "A2", leistung_kw |-> Some(0), leistung_m3_h |-> Some(0)]}

ValGeraetInputs ==
  {[id |-> "G1", zugehoerige_anlage |-> Some("A1"), zugehoeriger_raum |-> Some("R1")],
   [id |-> "G2", zugehoerige_anlage |-> Some("A9"), zugehoeriger_raum |-> Some("R9")],
   [id |-> "G2", zugehoerige_anlage |-> Some("A2"), zugehoeriger_raum |-> None,
    leistung_kw |-> Some(0)]}

ValTerminInputs ==
  {[id |-> "TERM_0001", zugehoerige_leistung |-> Some("LEIST_0009")]}

ValAnforderungInputs ==
  {[id |-> "ANF_0000", zugehoerige_raeume |-> Some({"R9"}), zugehoerige_anlagen |-> Some({})]}

(* the lists of at most n members of S *)
ListsOf(S, n) == UNION {[1..k -> S] : k \in 0..n}

ValidationInputs ==
  {[raeume |-> raeume, anlagen |-> anlagen, geraete |-> geraete, termine |-> termine,
    anforderungen |-> anforderungen, leistungen |-> <<>>] :
     raeume \in ListsOf(ValRaumInputs, MaxEntities),
     anlagen \in ListsOf(ValAnlageInputs, MaxEntities),
     geraete \in ListsOf(ValGeraetInputs, MaxEntities),
     termine \in ListsOf(ValTerminInputs, 1),
     anforderungen \in ListsOf(ValAnforderungInputs, 1)}

(* a caller hands one dict to the service *)
Validate ==
  /\ ~validation.done
  /\ validation' = [validation EXCEPT !.done = TRUE,
                                      !.result = validate_project_data(validation.data)]
  /\ UNCHANGED <<pipeline_vars, fusion, extraction>>

InitValidate ==
  /\ PipelineIdle /\ FusionInit
  /\ validation \in {[done |-> FALSE, row |-> 0, data |-> d, result |-> None] :
                       d \in ValidationInputs}
  /\ extraction = NotExtracted

NextValidate == Validate

SpecValidate == InitValidate /\ [][NextValidate]_vars

(***************************************************************************)
(* The extraction service on its own (app/services/extraction_service.py)  *)
(* with the parsers it dispatches to.  A file is                           *)
(*   file_type      the type stored with the upload                        *)
(*   plan           document_type names a plan ("plan", "grundriss", ...)  *)
(*   parser         the parser module of the type could be imported        *)
(*   library        the optional library the parser imports in a guarded   *)
(*                  import (ifcopenshell, pytesseract, ...) is installed   *)
(*   content        malformed bytes, or one sheet / document               *)
(* A sheet is its header row and the rows below it as runs of non-empty    *)
(* and empty rows; an extracted list is kept as the number of its members. *)
(* An exception is an outcome with the class and the message of the        *)
(* exception.                                                              *)
(***************************************************************************)
Returns(data) == [raised |-> FALSE, data |-> data]

Raises(exc, message) == [raised |-> TRUE, exc |-> exc, message |-> message]

MAX_ROWS_TO_EXTRACT == 10000

MAX_CONSECUTIVE_EMPTY_ROWS == 100

Min(a, b) == IF a < b THEN a ELSE b

RECURSIVE RowsIn(_, _)
RowsIn(segments, i) ==
  IF i > Len(segments) THEN 0 ELSE segments[i].len + RowsIn(segments, i + 1)

(* sheet.max_row *)
MaxRow(sheet) == sheet.header_row + RowsIn(sheet.segments, 1)

(* the rows of the run that starts at row and has len rows which are not *)
(* below the row last                                                     *)
Within(row, len, last) ==
  IF Min(row + len - 1, last) < row THEN 0 ELSE Min(row + len - 1, last) - row + 1

(* "for row_idx in range(header_row + 1, max_row + 1)" of a typed extractor: *)
(* one entity for each row whose key cell is not empty                       *)
RECURSIVE TypedLoop(_, _, _, _)
TypedLoop(segments, i, row, last) ==
  IF i > Len(segments) THEN 0
  ELSE (IF segments[i].empty THEN 0 ELSE Within(row, segments[i].len, last))
       + TypedLoop(segments, i + 1, row + segments[i].len, last)

(* _extract_raeume, _extract_geraete, _extract_anlagen, _extract_termine and *)
(* _extract_leistungen share the bounds of their loop                        *)
_extract_raeume(sheet) ==
  LET header_row == sheet.header_row
      max_row == Min(MaxRow(sheet), header_row + MAX_ROWS_TO_EXTRACT)
  IN TypedLoop(sheet.segments, 1, header_row + 1, max_row)

(* the loop of _extract_raw_table: empty rows are skipped and counted, the *)
(* loop stops at the 100th empty row in a row                              *)
RECURSIVE RawLoop(_, _, _, _, _)
RawLoop(segments, i, row, last, empty_rows_count) ==
  IF i > Len(segments) \/ row > last THEN 0
  ELSE IF segments[i].empty
    THEN IF empty_rows_count + Within(row, segments[i].len, last)
              >= MAX_CONSECUTIVE_EMPTY_ROWS
           THEN 0
           ELSE RawLoop(segments, i + 1, row + segments[i].len, last,
                        empty_rows_count + segments[i].len)
    ELSE Within(row, segments[i].len, last)
         + RawLoop(segments, i + 1, row + segments[i].len, last, 0)

(* _extract_raw_table: the number of rows of the raw table; the header row *)
(* is taken as the only row when no data row was found                     *)
_extract_raw_table(sheet) ==
  LET header_row == sheet.header_row
      start_data_row == IF header_row < MaxRow(sheet) THEN header_row + 1 ELSE header_row
      max_row_to_process == Min(MaxRow(sheet), start_data_row + MAX_ROWS_TO_EXTRACT)
      Rows(rows_data) == IF rows_data = 0 THEN 1 ELSE rows_data
  IN Rows(IF header_row < MaxRow(sheet)
            THEN RawLoop(sheet.segments, 1, start_data_row, max_row_to_process, 0)
            ELSE 0)

(* ExcelParser.parse of a workbook with one sheet that is recognised as a *)
(* room list; openpyxl.load_workbook raises its own exception on bytes    *)
(* that are no workbook                                                   *)
ExcelParse(file) ==
  IF file.content.malformed THEN Raises("InvalidFileException", "load_workbook")
  ELSE Returns([raeume |-> _extract_raeume(file.content),
                raw_tables |-> <<_extract_raw_table(file.content)>>])

(* WordParser.parse, PDFParser.parse: the library raises its own exception *)
LibraryParse(file) ==
  IF file.content.malformed THEN Raises("PackageNotFoundError", "open")
  ELSE Returns([raeume |-> 0, raw_tables |-> <<>>])

(* PDFPlanParser.parse: every exception ends in the OCR fallback, which *)
(* swallows its own                                                     *)
PlanParse(file) == Returns([raeume |-> 0, raw_tables |-> <<>>])

(* IFCParser.parse *)
IFCParse(file) ==
  IF ~file.library THEN Raises("ValueError", "ifcopenshell ist nicht installiert")
  ELSE IF file.content.malformed
    THEN Raises("ValueError", "Konnte IFC-Datei nicht oeffnen")
  ELSE Returns([raeume |-> 0, raw_tables |-> <<>>])

(* OCRParser.parse; PIL raises its own exception on bytes that are no image *)
OCRParse(file) ==
  IF ~file.library THEN Raises("ValueError", "pytesseract ist nicht installiert")
  ELSE IF file.content.malformed THEN Raises("UnidentifiedImageError", "open")
  ELSE Returns([raeume |-> 0, raw_tables |-> <<>>])

(* ExtractionService.extract_file *)
ServiceExtract(file) ==
  IF file.file_type = "Excel"
    THEN IF ~file.parser THEN Raises("ValueError", "Excel-Parser ist nicht verfuegbar")
         ELSE ExcelParse(file)
  ELSE IF file.file_type = "Word"
    THEN IF ~file.parser THEN Raises("ValueError", "Word-Parser ist nicht verfuegbar")
         ELSE LibraryParse(file)
  ELSE IF file.file_type = "PDF"
    THEN IF file.plan
           THEN IF ~file.parser
                  THEN Raises("ValueError", "PDF-Plan-Parser ist nicht verfuegbar")
                  ELSE PlanParse(file)
           ELSE IF ~file.parser
                  THEN Raises("ValueError", "PDF-Parser ist nicht verfuegbar")
                  ELSE LibraryParse(file)
  ELSE IF file.file_type = "IFC"
    THEN IF ~file.parser THEN Raises("ValueError", "IFC-Parser ist nicht verfuegbar")
         ELSE IFCParse(file)
  ELSE IF file.file_type = "Image"
    THEN IF ~file.parser THEN Raises("ValueError", "OCR-Parser ist nicht verfuegbar")
         ELSE OCRParse(file)
  ELSE Raises("ValueError", "Dateityp wird noch nicht unterstuetzt")

(* rows beyond the limit that the sheets of the inputs have *)
MaxExtraRows == 5

FileTypes == {"Excel", "Word", "PDF", "IFC", "Image", "CAD"}

Malformed == [malformed |-> TRUE]

Sheet(header_row, segments) ==
  [malformed |-> FALSE, header_row |-> header_row, segments |-> segments]

Run(len) == [len |-> len, empty |-> FALSE]

Gap(len) == [len |-> len, empty |-> TRUE]

SheetInputs ==
  {Sheet(h, <<Run(n)>>) :
     h \in {1, 3},
     n \in {0, 5} \cup ((MAX_ROWS_TO_EXTRACT - 1)..(MAX_ROWS_TO_EXTRACT + MaxExtraRows))}
  \cup {Sheet(3, <<Run(50), Gap(g), Run(50)>>) :
          g \in {MAX_CONSECUTIVE_EMPTY_ROWS - 1, MAX_CONSECUTIVE_EMPTY_ROWS}}

ExtractionInputs ==
  {[file_type |-> file_type, plan |-> plan, parser |-> parser, library |-> library,
    content |-> content] :
     file_type \in FileTypes, plan \in BOOLEAN, parser \in BOOLEAN, library \in BOOLEAN,
     content \in {Malformed} \cup SheetInputs}

(* a caller awaits extract_file for one file *)
Extract ==
  /\ ~extraction.done
  /\ extraction' = [extraction EXCEPT !.done = TRUE,
                                      !.outcome = ServiceExtract(extraction.file)]
  /\ UNCHANGED <<pipeline_vars, fusion, validation>>

InitExtract ==
  /\ PipelineIdle /\ FusionInit /\ validation = NotValidated
  /\ extraction \in {[done |-> FALSE, file |-> file, outcome |-> None] :
                       file \in ExtractionInputs}

NextExtract == Extract

SpecExtract == InitExtract /\ [][NextExtract]_vars

(***************************************************************************)
(* The extraction entry points.                                            *)
(*                                                                         *)
(* Every run has its own SQLAlchemy session (SessionLocal(), get_db).  A   *)
(* session sees what is committed when it reads; objects it has loaded     *)
(* stay as loaded until the session commits, which expires them, so that   *)
(* the next access reads the row again.  Attribute changes are written by  *)
(* the next commit of the session.  Runs interleave at their await points  *)
(* (extraction_service.extract_file), where the event loop may run another *)
(* request or background task, and across worker processes.                *)
(***************************************************************************)
(* what the parser returns for file f; file 1 is a spreadsheet with a room   *)
(* sheet and a device sheet whose system column names a system that no sheet *)
(* lists; file 2 is a Word document with a room table and a device table     *)
(* that has a type column and no name column                                 *)
FileExtraction(f) ==
  CASE f = 1 -> [raeume |-> <<[id |-> "R1", name |-> Some(Buero1),
                               flaeche_m2 |-> Some(20000)]>>,
                 geraete |-> <<[id |-> "GER_buero2_2", typ |-> Some(Buero2),
                                name |-> Some(Buero2), leistung_kw |-> None,
                                zugehoerige_anlage |-> Some("A9"),
                                zugehoeriger_raum |-> None]>>,
                 raw_tables |-> <<[t |-> 1]>>,
                 metadata |-> [sheets |-> 1]]
    [] f = 2 -> [raeume |-> <<[id |-> "R6", name |-> Some(Lager),
                               flaeche_m2 |-> Some(20300)]>>,
                 geraete |-> <<[id |-> "GER_1_1", typ |-> Some(Lager), name |-> None,
                                leistung_kw |-> Some(3000)]>>,
                 raw_tables |-> <<[t |-> 1]>>]
    [] OTHER -> [raeume |-> <<[id |-> "R1", name |-> Some(Buero1),
                               flaeche_m2 |-> Some(20300)]>>,
                 raw_tables |-> <<[t |-> 1]>>]

Uploaded == {f \in FileIds : files[f].uploaded}

ActiveRows == {i \in 1..Len(snapshots) : snapshots[i].is_active}

RECURSIVE Ascending(_)
Ascending(S) ==
  IF S = {} THEN <<>>
  ELSE LET m == CHOOSE x \in S : \A y \in S : x <= y
       IN <<m>> \o Ascending(S \ {m})

(* db.query(ProjectFile).filter(project_id, processed == False).all() *)
Unprocessed(fs) == Ascending({f \in FileIds : fs[f].uploaded /\ ~fs[f].processed})

(* the ProjectData object of row i as a session loads it *)
Loaded(rows, i) ==
  [version |-> rows[i].version, is_active |-> rows[i].is_active,
   data_json |-> rows[i].data_json]

NewRow(version, data_json, parent) ==
  [version |-> version, is_active |-> TRUE, data_json |-> Serialized(data_json),
   parent |-> parent]

(* the pending attribute changes of the file objects, written by a commit *)
Flush(fs, processed, cleared, errors) ==
  [f \in FileIds |->
     [uploaded |-> fs[f].uploaded,
      processed |-> fs[f].processed \/ f \in processed,
      processing_error |-> (fs[f].processing_error /\ f \notin cleared) \/ f \in errors]]

(* the sessions are numbered in the order in which their runs start *)
Unused(r) ==
  /\ runs[r].pc = "idle"
  /\ \A q \in RunIds : q < r => runs[q].pc # "idle"

Finished(run, new_row) ==
  [pc |-> "done", kind |-> run.kind, files_to_process |-> run.files_to_process,
   read |-> run.current_data, fused |-> run.fused, failed |-> run.failed,
   committed |-> new_row]

(* create_project: the Project row is committed first, the empty version-1 *)
(* ProjectData row in a second commit, which can fail (HTTP 500)           *)
create_project ==
  /\ ~project.exists
  /\ project' = [exists |-> TRUE, status |-> "draft"]
  /\ \E second_commit_ok \in BOOLEAN :
       snapshots' = IF second_commit_ok
                      THEN <<NewRow(1, create_empty_project_data, 0)>>
                      ELSE snapshots
  /\ UNCHANGED <<files, runs, fusion, validation, extraction>>

(* upload_file: a ProjectFile row with processed = False; the ids are given *)
(* out in the order of the uploads (autoincrement primary key)              *)
upload_file(f) ==
  /\ project.exists
  /\ ~files[f].uploaded
  /\ \A g \in FileIds : g < f => files[g].uploaded
  /\ files' = [files EXCEPT ![f].uploaded = TRUE]
  /\ UNCHANGED <<project, snapshots, runs, fusion, validation, extraction>>

(* trigger_extraction_background up to its first await: status, the list of  *)
(* unprocessed files, the active snapshot (created when there is none)       *)
StartBackground(r) ==
  /\ Unused(r)
  /\ project.exists
  /\ LET files_to_process == Unprocessed(files)
     IN IF files_to_process = <<>>
          THEN /\ project' = [project EXCEPT !.status =
                                IF Uploaded # {} /\ \A f \in Uploaded : files[f].processed
                                  THEN "validated" ELSE "processing"]
               /\ runs' = [runs EXCEPT ![r] =
                             [pc |-> "done", kind |-> "background",
                              files_to_process |-> <<>>, read |-> 0,
                              fused |-> {}, failed |-> {}, committed |-> 0]]
               /\ UNCHANGED snapshots
          ELSE /\ project' = [project EXCEPT !.status = "processing"]
               /\ \E created \in {ActiveRows = {}} :
                    LET rows == IF created
                                  THEN Append(snapshots,
                                              NewRow(1, create_empty_project_data, 0))
                                  ELSE snapshots
                    IN /\ snapshots' = rows
                       /\ \E current_data \in {i \in 1..Len(rows) : rows[i].is_active} :
                            runs' = [runs EXCEPT ![r] =
                              [pc |-> "loop", kind |-> "background",
                               files_to_process |-> files_to_process, idx |-> 1,
                               current_data |-> current_data,
                               mem |-> Loaded(rows, current_data), expired |-> FALSE,
                               files_processed |-> 0,
                               pending_processed |-> {}, pending_error |-> {},
                               fused |-> {}, failed |-> {}]]
  /\ UNCHANGED <<files, fusion, validation, extraction>>

(* project.status at the end of trigger_extraction_background.  When no file  *)
(* of the run succeeded, the session has not committed since it loaded the    *)
(* files, so it still sees every file of its batch as unprocessed, each with  *)
(* the error this run set on it.                                              *)
FinalStatus(run, fs) ==
  IF run.files_processed = 0 THEN "error"
  ELSE IF Uploaded # {} /\ \A f \in Uploaded : fs[f].processed THEN "validated"
  ELSE IF \E f \in Uploaded : ~fs[f].processed /\ fs[f].processing_error THEN "error"
  ELSE "processing"

(* after the loop of trigger_extraction_background: a new version when a file *)
(* was processed, then the status *)
FinishBackground(r, run, rows, fs) ==
  LET mem == IF run.expired THEN Loaded(rows, run.current_data) ELSE run.mem
      commits == run.files_processed > 0
      rows2 == IF commits
                 THEN Append([rows EXCEPT ![run.current_data].is_active = FALSE],
                             NewRow(mem.version + 1, mem.data_json, run.current_data))
                 ELSE rows
      fs2 == Flush(fs, {}, {}, run.pending_error)
  IN /\ snapshots' = rows2
     /\ files' = fs2
     /\ project' = [project EXCEPT !.status = FinalStatus(run, fs2)]
     /\ runs' = [runs EXCEPT ![r] = Finished(run, IF commits THEN Len(rows2) ELSE 0)]

(* one iteration of the loop of trigger_extraction_background, from the return *)
(* of "await extraction_service.extract_file(file_obj)" to the next await or   *)
(* to the end of the function                                                  *)
BackgroundFile(r) ==
  /\ runs[r].pc = "loop"
  /\ runs[r].kind = "background"
  /\ LET run == runs[r]
         f == run.files_to_process[run.idx]
         last == run.idx = Len(run.files_to_process)
         Continue(run2, rows, fs) ==
           IF last THEN FinishBackground(r, run2, rows, fs)
           ELSE /\ runs' = [runs EXCEPT ![r] = [run2 EXCEPT !.idx = run.idx + 1]]
                /\ snapshots' = rows
                /\ files' = fs
                /\ UNCHANGED project
     IN \E extracted \in BOOLEAN :
          IF ~extracted
            THEN Continue([run EXCEPT !.pending_error = @ \cup {f},
                                      !.failed = @ \cup {f}],
                          snapshots, files)
            ELSE LET mem == IF run.expired THEN Loaded(snapshots, run.current_data)
                            ELSE run.mem
                     Returned(res) ==
                       IF res.raised
                         THEN Continue([run EXCEPT !.mem = [mem EXCEPT !.data_json = res.o],
                                                   !.expired = FALSE,
                                                   !.pending_error = @ \cup {f},
                                                   !.failed = @ \cup {f}],
                                       snapshots, files)
                         ELSE Continue([run EXCEPT !.mem = [mem EXCEPT !.data_json = res.d],
                                                   !.expired = TRUE,
                                                   !.files_processed = @ + 1,
                                                   !.pending_error = {},
                                                   !.fused = @ \cup {f}],
                                       [snapshots EXCEPT ![run.current_data].data_json =
                                                           Serialized(res.d)],
                                       Flush(files, {f}, {f}, run.pending_error))
                 IN Returned(merge_extracted_data(mem.data_json, FileExtraction(f),
                                                  SourceFile(f)))
  /\ UNCHANGED <<fusion, validation, extraction>>

(* extract_project_data up to its first await; request_file_id = 0 stands for *)
(* a request without file_id.  The calls that return before they read the     *)
(* active snapshot (404, nothing to process) change nothing.                  *)
StartExtract(r, request_file_id) ==
  /\ Unused(r)
  /\ project.exists
  /\ LET all == Unprocessed(files)
         files_to_process == IF request_file_id = 0 THEN all
                             ELSE SelectSeq(all, LAMBDA f : f = request_file_id)
     IN /\ files_to_process # <<>>
        /\ \E current_data \in ActiveRows :
             runs' = [runs EXCEPT ![r] =
               [pc |-> "loop", kind |-> "extract",
                files_to_process |-> files_to_process, idx |-> 1,
                current_data |-> current_data,
                mem |-> Loaded(snapshots, current_data), expired |-> FALSE,
                files_processed |-> 0,
                pending_processed |-> {}, pending_error |-> {},
                fused |-> {}, failed |-> {}]]
  /\ UNCHANGED <<project, snapshots, files, fusion, validation, extraction>>

(* one iteration of the loop of extract_project_data; after the last one the *)
(* new version and all pending changes are committed, or rolled back when    *)
(* the commit fails (HTTP 500)                                               *)
ExtractFile(r) ==
  /\ runs[r].pc = "loop"
  /\ runs[r].kind = "extract"
  /\ LET run == runs[r]
         f == run.files_to_process[run.idx]
         last == run.idx = Len(run.files_to_process)
         Continue(run2) ==
           IF ~last
             THEN /\ runs' = [runs EXCEPT ![r] = [run2 EXCEPT !.idx = run.idx + 1]]
                  /\ UNCHANGED <<snapshots, files>>
             ELSE \E commit_ok \in BOOLEAN :
                    IF commit_ok
                      THEN /\ snapshots' =
                                Append([snapshots EXCEPT ![run.current_data].is_active = FALSE],
                                       NewRow(run2.mem.version + 1, run2.mem.data_json,
                                              run.current_data))
                           /\ files' = Flush(files, run2.pending_processed, {},
                                             run2.pending_error)
                           /\ runs' = [runs EXCEPT ![r] =
                                         Finished(run2, Len(snapshots) + 1)]
                      ELSE /\ runs' = [runs EXCEPT ![r] = Finished(run2, 0)]
                           /\ UNCHANGED <<snapshots, files>>
     IN \E extracted \in BOOLEAN :
          IF ~extracted
            THEN Continue([run EXCEPT !.pending_error = @ \cup {f},
                                      !.failed = @ \cup {f}])
            ELSE LET Returned(res) ==
                       IF res.raised
                         THEN Continue([run EXCEPT !.mem.data_json = res.d,
                                                   !.pending_error = @ \cup {f},
                                                   !.failed = @ \cup {f}])
                         ELSE Continue([run EXCEPT !.mem.data_json = res.d,
                                                   !.files_processed = @ + 1,
                                                   !.pending_processed = @ \cup {f},
                                                   !.fused = @ \cup {f}])
                 IN Returned(merge_extracted_data(run.mem.data_json, FileExtraction(f),
                                                  SourceFile(f)))
  /\ UNCHANGED <<project, fusion, validation, extraction>>

(* the Celery task extract_file: it calls the coroutine function              *)
(* extraction_service.extract_file without awaiting it and passes the         *)
(* coroutine object to merge_extracted_data, where "entity_type not in        *)
(* extracted_data" raises TypeError before anything is merged; the handler    *)
(* stores the error on the file and commits                                   *)
extract_file(f) ==
  /\ files[f].uploaded
  /\ ~files[f].processing_error
  /\ files' = [files EXCEPT ![f].processing_error = TRUE]
  /\ UNCHANGED <<project, snapshots, runs, fusion, validation, extraction>>

(* validate_project as it would be with the JSON column marked as modified: *)
(* the result is written to the row                                         *)
validate_project_persisting ==
  /\ project.exists
  /\ \E data \in ActiveRows :
       LET Answered(validation_result) ==
             /\ ~validation_result.raised
             /\ project' = [project EXCEPT !.status =
                              IF validation_result.konsistenz_ok
                                THEN "validated" ELSE "validation_errors"]
             /\ snapshots' = [snapshots EXCEPT ![data].data_json =
                                Put(@, "pruefungs_ergebnisse",
                                    [konsistenz_ok |-> Some(validation_result.konsistenz_ok),
                                     fehler |-> validation_result.fehler,
                                     warnungen |-> validation_result.warnungen,
                                     hinweise |-> validation_result.hinweise])]
             /\ validation' = [done |-> TRUE, row |-> data,
                               data |-> snapshots[data].data_json,
                               result |-> validation_result]
       IN Answered(validate_project_data(snapshots[data].data_json))
  /\ UNCHANGED <<files, runs, fusion, extraction>>

(* validation.py validate_project: the first active row is validated, the   *)
(* result is put into the loaded dict (the JSON column is not marked as     *)
(* modified, so the row is not written), the status is set and committed,   *)
(* and the result is returned; an exception is answered with a rollback     *)
validate_project ==
  /\ project.exists
  /\ \E data \in ActiveRows :
       LET Answered(validation_result) ==
             /\ ~validation_result.raised
             /\ project' = [project EXCEPT !.status =
                              IF validation_result.konsistenz_ok
                                THEN "validated" ELSE "validation_errors"]
             /\ validation' = [done |-> TRUE, row |-> data,
                               data |-> snapshots[data].data_json,
                               result |-> validation_result]
       IN Answered(validate_project_data(snapshots[data].data_json))
  /\ UNCHANGED <<snapshots, files, runs, fusion, extraction>>

Init == PipelineIdle /\ FusionInit /\ validation = NotValidated /\ extraction = NotExtracted

Next ==
  \/ create_project
  \/ \E f \in FileIds : upload_file(f)
  \/ \E r \in RunIds : StartBackground(r)
  \/ \E r \in RunIds : BackgroundFile(r)
  \/ \E r \in RunIds, request_file_id \in {0} \cup FileIds : StartExtract(r, request_file_id)
  \/ \E r \in RunIds : ExtractFile(r)
  \/ \E f \in FileIds : extract_file(f)
  \/ validate_project

Spec == Init /\ [][Next]_vars

(***************************************************************************)
(* Properties of the extraction entry points (Spec).                       *)
(***************************************************************************)
Listed == {"raeume", "anlagen", "geraete", "anforderungen", "termine", "leistungen",
           "images", "raw_tables", "full_text"}

(* data_json holds an element taken from file f: an entity, image, raw table *)
(* or text entry with f in its provenance, f's metadata, f's registry entry  *)
ContainsFrom(data_json, f) ==
  \/ \E k \in Listed \cap DOMAIN data_json :
       \E i \in 1..Len(data_json[k]) :
         /\ Has(data_json[k][i], "quelle")
         /\ \E j \in 1..Len(QuelleEntries(data_json[k][i].quelle)) :
              QuelleEntries(data_json[k][i].quelle)[j] = f
  \/ /\ Has(data_json, "metadata")
     /\ ToString(f) \in DOMAIN data_json.metadata
  \/ /\ Has(data_json, "projekt")
     /\ \E i \in 1..Len(data_json.projekt.dateien) :
          data_json.projekt.dateien[i].name = SourceFile(f).original_filename

InFlight == {r \in RunIds : runs[r].pc = "loop"}

(* C1: at most one ProjectData row of the project has is_active = true, in *)
(* every reachable state *)
C1_AtMostOneActive == Cardinality(ActiveRows) <= 1

(* C2: at most one run at a time has read the active snapshot and not yet *)
(* committed (or given up) its successor *)
C2_OneFusionInFlight == Cardinality(InFlight) <= 1

(* merge_extracted_data raises for file f after it has applied part of f *)
RaisesPartway(f) ==
  LET res == merge_extracted_data(create_empty_project_data, FileExtraction(f),
                                  SourceFile(f))
  IN res.raised /\ res.d # create_empty_project_data

(* C3: a file for which merge_extracted_data raises after it began applying *)
(* the file's data stays processed = false, and no committed snapshot holds *)
(* an element taken from that file *)
C3_NoPartialFusion ==
  \A f \in FileIds :
    RaisesPartway(f) =>
      /\ ~files[f].processed
      /\ \A i \in 1..Len(snapshots) : ~ContainsFrom(snapshots[i].data_json, f)

ContentKeys == Listed \cup {"metadata"}

Content(data_json) ==
  [k \in ContentKeys \cap DOMAIN data_json |-> data_json[k]]

(* C4: the entity collections, raw tables, free text and per-file metadata of *)
(* a committed ProjectData row never change *)
C4_SnapshotsImmutable ==
  [][\A i \in 1..Len(snapshots) :
       Content(snapshots'[i].data_json) = Content(snapshots[i].data_json)]_vars

(* C5: versions are pairwise distinct, a new snapshot has the version of the *)
(* snapshot it was produced from plus one, and the active snapshot has the   *)
(* greatest version *)
C5_VersionsMonotonic ==
  /\ \A i, j \in 1..Len(snapshots) :
       i # j => snapshots[i].version # snapshots[j].version
  /\ \A i \in 1..Len(snapshots) :
       snapshots[i].parent # 0 =>
         snapshots[i].version = snapshots[snapshots[i].parent].version + 1
  /\ \A i \in ActiveRows : \A j \in 1..Len(snapshots) :
       snapshots[j].version <= snapshots[i].version

(* C6: a project that exists has an active snapshot; the one create_project *)
(* leaves is version 1 with empty collections *)
C6_ActiveSnapshotExists ==
  project.exists =>
    /\ ActiveRows # {}
    /\ snapshots[1].version = 1
    /\ \A k \in Listed \cap DOMAIN create_empty_project_data :
         create_empty_project_data[k] = <<>>

(* C7: when a run over a batch of several files ends and a file of the batch *)
(* failed, the failed file is unprocessed with an error and will be selected *)
(* by the next run, and every file whose extraction and fusion succeeded is  *)
(* processed with its data in the snapshot the run committed *)
C7_BatchIsolation ==
  [][\A r \in RunIds :
       (/\ runs[r].pc = "loop" /\ runs'[r].pc = "done"
        /\ Len(runs'[r].files_to_process) >= 2
        /\ runs'[r].failed # {})
       => /\ \A f \in runs'[r].failed :
               /\ ~files'[f].processed
               /\ files'[f].processing_error
               /\ \E i \in 1..Len(Unprocessed(files')) : Unprocessed(files')[i] = f
          /\ \A f \in runs'[r].fused :
               /\ files'[f].processed
               /\ runs'[r].committed # 0
               /\ ContainsFrom(snapshots'[runs'[r].committed].data_json, f)]_vars

(***************************************************************************)
(* Properties of the fusion engine (SpecMerge).                            *)
(***************************************************************************)
IsPrefix(s, t) == Len(s) <= Len(t) /\ SubSeq(t, 1, Len(s)) = s

Collection(d, k) == IF Has(d, k) THEN d[k] ELSE <<>>

Entries(e) == IF Has(e, "quelle") THEN e.quelle.entries ELSE <<>>

RECURSIVE TotalEntries(_, _)
TotalEntries(list, i) ==
  IF i > Len(list) THEN 0 ELSE Len(Entries(list[i])) + TotalEntries(list, i + 1)

(* the source file of the last call *)
LastSource == fusion.count

(* C8: every Room, System, Device and Deadline that was in the dict before a  *)
(* call of merge_extracted_data is still there after it, at its place, and    *)
(* its provenance entries before the call are a prefix of its provenance      *)
(* entries after it; when the call returns, every incoming entity has added   *)
(* exactly one entry, to the entity it matched or to the new entity it became *)
C8_ProvenanceKept ==
  \A k \in Deduplicated :
    LET old == Collection(fusion.before, k)
        new == Collection(fusion.data, k)
    IN /\ Len(old) <= Len(new)
       /\ \A i \in 1..Len(old) :
            /\ new[i].id = old[i].id
            /\ IsPrefix(Entries(old[i]), Entries(new[i]))
       /\ (~fusion.raised /\ Has(fusion.ext, k)) =>
            TotalEntries(new, 1) = TotalEntries(old, 1) + Len(fusion.ext[k])

(* an entity that already had two provenance entries got a third one from a match *)
C8_Witness ==
  /\ ~fusion.raised
  /\ \E k \in {"raeume", "termine"} :
       /\ Has(fusion.ext, k)
       /\ \E i \in 1..Len(Collection(fusion.before, k)) :
            /\ Len(Entries(fusion.before[k][i])) = 2
            /\ Entries(fusion.data[k][i]) = Entries(fusion.before[k][i]) \o <<LastSource>>

ScalarKeys == {"name", "nummer", "typ", "ifc_guid", "system_id",
               "flaeche_m2", "leistung_kw", "leistung_m3_h"}

MergedInto(i) ==
  /\ ~fusion.raised
  /\ Has(fusion.ext, "raeume")
  /\ Len(fusion.ext.raeume) = 1
  /\ i \in 1..Len(Collection(fusion.before, "raeume"))
  /\ Len(fusion.data.raeume) = Len(fusion.before.raeume)
  /\ Len(Entries(fusion.data.raeume[i])) = Len(Entries(fusion.before.raeume[i])) + 1

AreaDiffers(old, inc) ==
  /\ Has(old, "flaeche_m2") /\ old.flaeche_m2 # None
  /\ Has(inc, "flaeche_m2") /\ inc.flaeche_m2 # None
  /\ Abs(inc.flaeche_m2[1] - old.flaeche_m2[1]) > KonfliktToleranz

(* C10: when a room is merged into a matching room and their areas differ by  *)
(* more than the tolerance, the collection keeps its length, the room keeps   *)
(* its area and records a conflict for flaeche_m2 with the old value, the     *)
(* incoming value, the old provenance and the incoming provenance, and the    *)
(* room's provenance is the old provenance followed by the incoming source    *)
C10_ConflictRecorded ==
  \A i \in 1..Len(Collection(fusion.before, "raeume")) :
    (MergedInto(i) /\ AreaDiffers(fusion.before.raeume[i], fusion.ext.raeume[1])) =>
      LET old == fusion.before.raeume[i]
          new == ResolveEntity(fusion.data.raeume[i])
          inc == fusion.ext.raeume[1]
      IN /\ Entries(new) = Entries(old) \o <<LastSource>>
         /\ new.flaeche_m2 = old.flaeche_m2
         /\ Has(new, "konflikte") /\ Has(new.konflikte, "flaeche_m2")
         /\ new.konflikte.flaeche_m2.alt = old.flaeche_m2[1]
         /\ new.konflikte.flaeche_m2.neu = inc.flaeche_m2[1]
         /\ new.konflikte.flaeche_m2.quelle_neu.entries = <<LastSource>>
         /\ IsPrefix(Entries(old), new.konflikte.flaeche_m2.quelle_alt.entries)

(* the spec's scenario: area 20.0 from file 1, then area 20.3 from file 2 *)
C10_Witness ==
  /\ MergedInto(1)
  /\ fusion.count = 2
  /\ fusion.before.raeume[1].flaeche_m2 = Some(20000)
  /\ fusion.ext.raeume[1].flaeche_m2 = Some(20300)
  /\ fusion.data.raeume[1].quelle.entries = <<1, 2>>
  /\ fusion.data.raeume[1].konflikte.flaeche_m2.alt = 20000
  /\ fusion.data.raeume[1].konflikte.flaeche_m2.neu = 20300

(* the room shows the value v for its area: as the area itself or as one of *)
(* the values of the conflict recorded for the area                         *)
ExposesArea(room, v) ==
  \/ Has(room, "flaeche_m2") /\ room.flaeche_m2 = Some(v)
  \/ /\ Has(room, "konflikte") /\ Has(room.konflikte, "flaeche_m2")
     /\ \/ room.konflikte.flaeche_m2.alt = v
        \/ room.konflikte.flaeche_m2.neu = v

(* C11: a conflict recorded on a room by an earlier merge is still exposed   *)
(* after a later merge into that room: both values of the recorded conflict  *)
(* are still shown by the room, so that three mutually different areas from  *)
(* three sources are all visible after the third merge                       *)
C11_ConflictsAccumulate ==
  \A i \in 1..Len(Collection(fusion.before, "raeume")) :
    (/\ MergedInto(i)
     /\ Has(fusion.before.raeume[i], "konflikte")
     /\ Has(fusion.before.raeume[i].konflikte, "flaeche_m2")) =>
      /\ ExposesArea(fusion.data.raeume[i], fusion.before.raeume[i].konflikte.flaeche_m2.alt)
      /\ ExposesArea(fusion.data.raeume[i], fusion.before.raeume[i].konflikte.flaeche_m2.neu)

(* the last call merged one incoming system into the existing system at index i *)
MergedAnlageInto(i) ==
  /\ ~fusion.raised
  /\ Has(fusion.ext, "anlagen")
  /\ Len(fusion.ext.anlagen) = 1
  /\ i \in 1..Len(Collection(fusion.before, "anlagen"))
  /\ Len(fusion.data.anlagen) = Len(fusion.before.anlagen)
  /\ Len(Entries(fusion.data.anlagen[i])) = Len(Entries(fusion.before.anlagen[i])) + 1

(* the entity shows the value v for the field key: as the field itself, or *)
(* in the conflict recorded for the field                                  *)
Exposes(e, key, v) ==
  \/ Has(e, key) /\ e[key] = Some(v)
  \/ /\ Has(e, "konflikte") /\ Has(e.konflikte, key)
     /\ \/ e.konflikte[key].alt = v
        \/ e.konflikte[key].neu = v

(* C12: when a system is merged into a matching system and leistung_kw or   *)
(* leistung_m3_h differs between them by more than the tolerance, the       *)
(* resulting system shows both values                                       *)
C12_AnlageConflictExposed ==
  \A i \in 1..Len(Collection(fusion.before, "anlagen")) :
    MergedAnlageInto(i) =>
      \A key \in {"leistung_kw", "leistung_m3_h"} :
        LET old == fusion.before.anlagen[i]
            inc == fusion.ext.anlagen[1]
        IN (/\ Has(old, key) /\ old[key] # None
            /\ Has(inc, key) /\ inc[key] # None
            /\ Abs(inc[key][1] - old[key][1]) > KonfliktToleranz) =>
             /\ Exposes(fusion.data.anlagen[i], key, old[key][1])
             /\ Exposes(fusion.data.anlagen[i], key, inc[key][1])

(* no two entities of one collection have the same id *)
UniqueIds(d) ==
  \A k \in {"raeume", "anlagen", "geraete", "anforderungen", "termine", "leistungen"} :
    \A i, j \in 1..Len(Collection(d, k)) : i # j => d[k][i].id # d[k][j].id

(* C13: a call of merge_extracted_data that returns, on a dict whose ids *)
(* were unique within each collection, leaves the ids unique within each *)
(* collection                                                            *)
C13_IdsUnique ==
  (~fusion.raised /\ UniqueIds(fusion.before)) => UniqueIds(fusion.data)

(* the number of raw tables in the extraction results of the files in the list *)
RECURSIVE TablesExtracted(_, _)
TablesExtracted(fs, i) ==
  IF i > Len(fs) THEN 0
  ELSE Len(Collection(FileExtraction(fs[i]), "raw_tables")) + TablesExtracted(fs, i + 1)

(* merge_extracted_data on its own: the raw tables before the call are a *)
(* prefix of those after it, and a call that returns has appended one    *)
(* entry per extracted table                                             *)
RawTablesAppended ==
  /\ IsPrefix(Collection(fusion.before, "raw_tables"), Collection(fusion.data, "raw_tables"))
  /\ ~fusion.raised =>
       Len(Collection(fusion.data, "raw_tables")) =
         Len(Collection(fusion.before, "raw_tables")) + Len(Collection(fusion.ext, "raw_tables"))

(* C14: the raw tables of the snapshot a run read are a prefix of the raw   *)
(* tables of the snapshot it committed, and the committed snapshot has as   *)
(* many more raw tables as were extracted from the files the run fused      *)
C14_RawTablesAppendOnly ==
  \A r \in RunIds :
    (runs[r].pc = "done" /\ runs[r].committed # 0) =>
      LET old == Collection(snapshots[runs[r].read].data_json, "raw_tables")
          new == Collection(snapshots[runs[r].committed].data_json, "raw_tables")
      IN /\ IsPrefix(old, new)
         /\ Len(new) = Len(old) + TablesExtracted(Ascending(runs[r].fused), 1)

(***************************************************************************)
(* Properties of the validation service (SpecMerge, SpecValidate).         *)
(***************************************************************************)
(* the result holds an error of the category for the entity *)
Reports(res, kategorie, entity_id) ==
  /\ ~res.raised
  /\ ~res.konsistenz_ok
  /\ \E k \in 1..Len(res.fehler) :
       /\ res.fehler[k].kategorie = kategorie
       /\ res.fehler[k].schweregrad = "kritisch"
       /\ res.fehler[k].betroffene_entitaet = entity_id

(* C15: when the last merge fused an incoming room into a stored room whose   *)
(* area differs from the incoming one beyond the tolerance, or an incoming    *)
(* system into a stored system whose power rating differs, validating the     *)
(* fused dict reports a critical "Widerspruch" error for that entity and      *)
(* konsistenz_ok is false                                                     *)
C15_ConflictReported ==
  LET Reported(res) ==
        /\ \A i \in 1..Len(Collection(fusion.before, "raeume")) :
             (MergedInto(i)
              /\ Widerspruch(fusion.before.raeume[i], fusion.ext.raeume[1], "flaeche_m2")) =>
               Reports(res, "Widerspruch", fusion.data.raeume[i].id)
        /\ \A i \in 1..Len(Collection(fusion.before, "anlagen")) :
             (MergedAnlageInto(i)
              /\ Widerspruch(fusion.before.anlagen[i], fusion.ext.anlagen[1], "leistung_kw")) =>
               Reports(res, "Widerspruch", fusion.data.anlagen[i].id)
  IN Reported(validate_project_data(Serialized(fusion.data)))

(* a call of validate_project_data on its own has returned *)
Validated == validation.done /\ validation.row = 0 /\ ~validation.result.raised

(* the value of the field is a number that is not positive *)
NotPositive(entity, key) == Get(entity, key) # None /\ entity[key][1] <= 0

(* C16: a returned validation holds an error for every room whose area,    *)
(* volume or height is <= 0 and for every system or device whose power or  *)
(* flow rating is <= 0, and konsistenz_ok is false when there is one       *)
C16_NonPositiveIsError ==
  Validated =>
    LET data == validation.data
    IN /\ \A j \in 1..Len(data.raeume) :
            (\E key \in {"flaeche_m2", "volumen_m3", "hoehe_m"} : NotPositive(data.raeume[j], key))
              => Reports(validation.result, "Plausibilitaetsfehler", data.raeume[j].id)
       /\ \A j \in 1..Len(data.anlagen) :
            (\E key \in {"leistung_kw", "leistung_m3_h"} : NotPositive(data.anlagen[j], key))
              => Reports(validation.result, "Plausibilitaetsfehler", data.anlagen[j].id)
       /\ \A j \in 1..Len(data.geraete) :
            (\E key \in {"leistung_kw", "leistung_m3_h"} : NotPositive(data.geraete[j], key))
              => Reports(validation.result, "Plausibilitaetsfehler", data.geraete[j].id)

(* the id the entity holds in a single-reference field exists in the collection *)
RefExists(data, entity, key, target) ==
  TruthyId(Get(entity, key)) => entity[key][1] \in IdsOf(data, target)

(* the ids the entity holds in a reference list exist in the collection *)
RefsExist(data, entity, key, target) == RefsOf(entity, key) \subseteq IdsOf(data, target)

(* C17: when a returned validation has konsistenz_ok true, every relationship *)
(* field of every entity of the validated dict references existing ids        *)
C17_CleanMeansNoDangling ==
  (Validated /\ validation.result.konsistenz_ok) =>
    LET data == validation.data
    IN /\ \A j \in 1..Len(data.geraete) :
            /\ RefExists(data, data.geraete[j], "zugehoerige_anlage", "anlagen")
            /\ RefExists(data, data.geraete[j], "zugehoeriger_raum", "raeume")
       /\ \A j \in 1..Len(data.anlagen) :
            /\ RefsExist(data, data.anlagen[j], "zugehoerige_raeume", "raeume")
            /\ RefsExist(data, data.anlagen[j], "zugehoerige_geraete", "geraete")
       /\ \A j \in 1..Len(data.raeume) :
            /\ RefsExist(data, data.raeume[j], "zugehoerige_anlagen", "anlagen")
            /\ RefsExist(data, data.raeume[j], "zugehoerige_geraete", "geraete")
       /\ \A j \in 1..Len(data.termine) :
            RefExists(data, data.termine[j], "zugehoerige_leistung", "leistungen")
       /\ \A k \in {"anforderungen", "leistungen"} : \A j \in 1..Len(data[k]) :
            /\ RefsExist(data, data[k][j], "zugehoerige_raeume", "raeume")
            /\ RefsExist(data, data[k][j], "zugehoerige_anlagen", "anlagen")

(* the device names a system id that no system of the dict has *)
DanglingAnlage(data, geraet) ==
  /\ TruthyId(Get(geraet, "zugehoerige_anlage"))
  /\ geraet.zugehoerige_anlage[1] \notin IdsOf(data, "anlagen")

(* the positions of the "Referenzfehler" issues of the list for the entity *)
Referenzfehler(issues, entity_id) ==
  {k \in 1..Len(issues) : /\ issues[k].kategorie = "Referenzfehler"
                          /\ issues[k].betroffene_entitaet = entity_id}

(* C18: for every device that names a non-existent system id, a returned      *)
(* validation holds in fehler one "Referenzfehler" issue of severity          *)
(* "kritisch" for each device of that id and that system id, the device has   *)
(* no "Referenzfehler" issue among the warnings and hints, and the errors     *)
(* hold no second "Referenzfehler" issue for it: as many as there are devices *)
(* of that id with a dangling reference                                       *)
C18_DanglingSystemReported ==
  Validated =>
    LET data == validation.data
        res == validation.result
    IN \A j \in 1..Len(data.geraete) :
         DanglingAnlage(data, data.geraete[j]) =>
           LET geraet == data.geraete[j]
               same == {k \in 1..Len(data.geraete) :
                          /\ data.geraete[k].id = geraet.id
                          /\ Get(data.geraete[k], "zugehoerige_anlage") = geraet.zugehoerige_anlage}
               dangling == {k \in 1..Len(data.geraete) :
                              /\ data.geraete[k].id = geraet.id
                              /\ \/ DanglingAnlage(data, data.geraete[k])
                                 \/ ~RefExists(data, data.geraete[k], "zugehoeriger_raum",
                                               "raeume")}
               named == {k \in Referenzfehler(res.fehler, geraet.id) :
                           /\ res.fehler[k].schweregrad = "kritisch"
                           /\ res.fehler[k].beschreibung.ref = geraet.zugehoerige_anlage[1]}
           IN /\ Cardinality(named) = Cardinality(same)
              /\ Cardinality(Referenzfehler(res.fehler, geraet.id)) = Cardinality(dangling)
              /\ Referenzfehler(res.warnungen, geraet.id) = {}
              /\ Referenzfehler(res.hinweise, geraet.id) = {}
              /\ ~res.konsistenz_ok

(* the spec's scenario: one device that references system A9 and no system *)
C18_Witness ==
  /\ Validated
  /\ Len(validation.data.geraete) = 1
  /\ validation.data.geraete[1].zugehoerige_anlage = Some("A9")
  /\ validation.data.anlagen = <<>>
  /\ Cardinality(Referenzfehler(validation.result.fehler, "G2")) = 1

(***************************************************************************)
(* Properties of the project status (Spec).                                *)
(***************************************************************************)
(* C19: whenever a step leaves the project with status "validated", every   *)
(* uploaded file is processed and the most recent validation was of a row   *)
(* that is active and found no errors; and when the status was              *)
(* "validation_errors" before the step, the step is a validation            *)
C19_ValidatedMeansValidation ==
  [][project'.status = "validated" =>
       /\ \A f \in FileIds : files'[f].uploaded => files'[f].processed
       /\ validation'.done
       /\ validation'.row \in ActiveRows'
       /\ validation'.result.konsistenz_ok
       /\ project.status = "validation_errors" => validation' # validation]_vars

(* run r ends in this step *)
Ends(r) == runs[r].pc # "done" /\ runs'[r].pc = "done"

(* C20: when an extraction run ends and leaves an uploaded file unprocessed *)
(* with a processing error, the project status is "error"                   *)
C20_FailedRunMeansError ==
  [][\A r \in RunIds :
       (Ends(r) /\ \E f \in FileIds : /\ files'[f].uploaded
                                      /\ ~files'[f].processed
                                      /\ files'[f].processing_error)
         => project'.status = "error"]_vars

(***************************************************************************)
(* Properties of the extraction service (SpecExtract).                     *)
(***************************************************************************)
(* the file's parser or the library it needs is missing *)
CapabilityMissing(file) ==
  /\ file.file_type \in FileTypes \ {"CAD"}
  /\ \/ ~file.parser
     \/ file.file_type \in {"IFC", "Image"} /\ ~file.library

(* the file's parser is there and fails on the content, or there is no *)
(* parser for the type                                                 *)
ContentFails(file) ==
  /\ ~CapabilityMissing(file)
  /\ ServiceExtract(file).raised

(* C21: when extract_file has ended for a file whose parser or library is  *)
(* missing, it has raised an exception whose class differs from the class  *)
(* of every exception it raises for a file whose content fails             *)
C21_CapabilityDistinct ==
  (extraction.done /\ CapabilityMissing(extraction.file)) =>
    /\ extraction.outcome.raised
    /\ \A file \in ExtractionInputs :
         ContentFails(file) => ServiceExtract(file).exc # extraction.outcome.exc

(* C22: when extract_file has returned for a spreadsheet, the entity list *)
(* and the raw table of its sheet hold at most 10,000 rows                *)
C22_RowLimit ==
  (extraction.done /\ ~extraction.outcome.raised) =>
    /\ extraction.outcome.data.raeume <= MAX_ROWS_TO_EXTRACT
    /\ \A t \in 1..Len(extraction.outcome.data.raw_tables) :
         extraction.outcome.data.raw_tables[t] <= MAX_ROWS_TO_EXTRACT

(***************************************************************************)
(* Match priority (SpecMerge).                                             *)
(***************************************************************************)
(* the last call returned and its one incoming entity of collection k added *)
(* its provenance entry to the existing entity at index i                   *)
AbsorbedBy(k, i) ==
  /\ ~fusion.raised
  /\ Has(fusion.ext, k)
  /\ Len(fusion.ext[k]) = 1
  /\ i \in 1..Len(Collection(fusion.before, k))
  /\ Len(fusion.data[k]) = Len(fusion.before[k])
  /\ Len(Entries(fusion.data[k][i])) = Len(Entries(fusion.before[k][i])) + 1

(* C23: when a call of merge_extracted_data returns for one incoming Room,  *)
(* System or Device whose id equals the id of an entity of the collection,  *)
(* the incoming entity was merged into an entity with that id               *)
C23_IdMatchFirst ==
  \A k \in {"raeume", "anlagen", "geraete"} :
    (~fusion.raised /\ Has(fusion.ext, k) /\ Len(fusion.ext[k]) = 1) =>
      LET old == Collection(fusion.before, k)
          inc == fusion.ext[k][1]
      IN (\E j \in 1..Len(old) : old[j].id = inc.id) =>
           \E j \in 1..Len(old) : old[j].id = inc.id /\ AbsorbedBy(k, j)

(***************************************************************************)
(* Properties of interleaved runs (Spec).                                  *)
(***************************************************************************)
(* no run is between its start and its end *)
AllFinished == \A r \in RunIds : runs[r].pc # "loop"

(* C24: when no run is under way, the active snapshot holds data of every *)
(* file that is marked as processed                                       *)
C24_ProcessedIsInActive ==
  AllFinished =>
    \A f \in FileIds :
      files[f].processed =>
        \A i \in ActiveRows : ContainsFrom(snapshots[i].data_json, f)

(* the entries of a list that name file f as their source *)
RECURSIVE FromFile(_, _, _)
FromFile(list, f, i) ==
  IF i > Len(list) THEN 0
  ELSE (IF Has(list[i], "quelle") /\ QuelleEntries(list[i].quelle) = <<f>> THEN 1 ELSE 0)
       + FromFile(list, f, i + 1)

(* C25: an active snapshot holds, of every file, at most as many raw tables, *)
(* requirements and service items as the file has                           *)
C25_FusedOnce ==
  \A i \in ActiveRows : \A f \in FileIds :
    \A k \in {"raw_tables", "anforderungen", "leistungen"} :
      FromFile(Collection(snapshots[i].data_json, k), f, 1)
        <= Len(Collection(FileExtraction(f), k))

(* C26: a step that adds a snapshot or changes which snapshots are active is *)
(* the step of a run that has fused a file                                   *)
C26_VersionNeedsFusion ==
  [][\A r \in RunIds :
       (runs[r].pc = "loop" /\ runs'[r].pc = "done" /\ runs'[r].fused = {}) =>
         /\ Len(snapshots') = Len(snapshots)
         /\ \A i \in 1..Len(snapshots) : snapshots'[i].is_active = snapshots[i].is_active]_vars

(* C27: a file that is marked as processed has no error *)
C27_ProcessedHasNoError ==
  \A f \in FileIds : files[f].processed => ~files[f].processing_error

(* every uploaded file has been taken up by a run, so that the run its upload *)
(* queued has started                                                         *)
NothingQueued ==
  \A f \in Uploaded :
    \/ files[f].processed
    \/ \E r \in RunIds :
         /\ runs[r].pc = "done"
         /\ \E i \in 1..Len(runs[r].files_to_process) : runs[r].files_to_process[i] = f

(* C30: when no run is under way and none is queued, the status of the *)
(* project is not 'processing'                                         *)
C30_IdleIsNotProcessing ==
  (AllFinished /\ NothingQueued) => project.status # "processing"

C29_MergeNeverRaises == ~fusion.raised

====
